---- MODULE Spec2Model ----
(***************************************************************************)
(* wiump: "which process owns this port".  A model of src/main.rs: the     *)
(* process snapshot, the two socket enumerations (IPv4, IPv6), the TCP     *)
(* filter, the port filter, the sort and the printed listing.              *)
(*                                                                         *)
(* Option<T> is modelled as a sequence of length at most one: None is <<>> *)
(* and Some(x) is <<x>>.  A formatted string "{a}:{b}" is modelled as the  *)
(* pair <<a, b>> of the values it is built from.  Writes to stdout are     *)
(* taken to succeed (a closed stdout is outside the model).                *)
(***************************************************************************)
EXTENDS Integers, Sequences, FiniteSets, TLC

VARIABLES
    pc,           \* position of main: new_all, refresh, enum4, enum6, output, done
    args,         \* Args: [port: Option<u16>, detailed: bool]
    sys,          \* the sysinfo System: pid -> Option<Process>
    table4,       \* rows the kernel iterator yielded for IPv4 (environment)
    table6,       \* rows the kernel iterator yielded for IPv6 (environment)
    sockets,      \* main's `sockets` (IPv4 result, then IPv4 ++ IPv6)
    sockets6,     \* main's `sockets6`
    tcp_sockets,  \* main's `tcp_sockets`
    matching,     \* main's `matching` (port mode)
    out,          \* what was printed on stdout, in order
    result        \* <<"Running">>, <<"Ok">> or <<"Err", message...>>

vars == <<pc, args, sys, table4, table6, sockets, sockets6, tcp_sockets, matching, out, result>>

None == <<>>

Some(x) == <<x>>

(***************************************************************************)
(* Bounds and input universes.                                             *)
(***************************************************************************)
\* Most rows the kernel socket tables yield in one run, both families together.
MaxSockets == 2

Ports == {80, 443}

\* The port of the UDP sockets: one that TCP sockets use too.
UdpPorts == {80}

Pids == {1, 2}

\* associated_pids of a kernel row: none, one owner, two owners (after a fork).
PidLists == {<<>>, <<1>>, <<1, 2>>}

\* What a sysinfo Process can look like: a root daemon, a process whose uid has
\* no account entry, and a process whose details could not be read.
ProcKinds ==
    { [name |-> "sshd", user_id |-> Some(0), cmd |-> <<"sshd", "-D">>,
       exe |-> Some("/usr/sbin/sshd"), cwd |-> Some("/")],
      [name |-> "web", user_id |-> Some(1000), cmd |-> <<"web">>,
       exe |-> None, cwd |-> None],
      [name |-> "kworker", user_id |-> None, cmd |-> <<>>,
       exe |-> None, cwd |-> None] }

\* The process tables a refresh can capture.
Snapshots == [Pids -> {None} \cup {Some(k) : k \in ProcKinds}]

IPV4 == "IPV4"

IPV6 == "IPV6"

TCP == "TCP"

UDP == "UDP"

AnyAddr(addr) == IF addr = IPV4 THEN "0.0.0.0" ELSE "::"

\* netstat2::TcpSocketInfo of a listening socket.
TcpInfos(addr) ==
    { [local_addr |-> AnyAddr(addr), local_port |-> p,
       remote_addr |-> AnyAddr(addr), remote_port |-> 0, state |-> "Listen"] : p \in Ports }

\* netstat2::UdpSocketInfo: it has no remote endpoint and no state.
UdpInfos(addr) ==
    { [local_addr |-> AnyAddr(addr), local_port |-> p] : p \in UdpPorts }

\* One item of the iterator: Err(_) or Ok(netstat2::SocketInfo).
Rows(addr) ==
    {<<"Err">>}
    \cup { <<"Ok", [protocol_socket_info |-> <<"Tcp", t>>, associated_pids |-> l]>> :
             t \in TcpInfos(addr), l \in PidLists }
    \cup { <<"Ok", [protocol_socket_info |-> <<"Udp", u>>, associated_pids |-> l]>> :
             u \in UdpInfos(addr), l \in PidLists }

Tables(addr, n) == UNION { [1..k -> Rows(addr)] : k \in 0..n }

(***************************************************************************)
(* get_sockets                                                             *)
(***************************************************************************)
\* The closure of .map(|&pid| ...): a ProcessInfo for one associated pid.
ProcessInfoOf(s, pid) ==
    IF s[pid] # None
    THEN LET process == s[pid][1] IN
         [pid |-> pid,
          uid |-> process.user_id,
          name |-> process.name,
          cmd |-> process.cmd,
          exe |-> IF process.exe = None THEN "" ELSE process.exe[1],
          cwd |-> IF process.cwd = None THEN "" ELSE process.cwd[1]]
    ELSE [pid |-> pid, uid |-> None, name |-> "unknown", cmd |-> <<>>,
          exe |-> "", cwd |-> ""]

\* Mutant: only the first associated pid is resolved.
Processes_FirstOnly(s, pids) ==
    [i \in 1..(IF Len(pids) > 0 THEN 1 ELSE 0) |-> ProcessInfoOf(s, pids[i])]

\* Mutant: a pid the snapshot does not know is dropped (filter_map).
Processes_DropMissing(s, pids) ==
    LET known == SelectSeq(pids, LAMBDA pid : s[pid] # None)
    IN [i \in 1..Len(known) |-> ProcessInfoOf(s, known[i])]

\* si.associated_pids.iter().map(...).collect()
Processes(s, pids) == [i \in 1..Len(pids) |-> ProcessInfoOf(s, pids[i])]

\* Mutant: the UDP arm fills in a remote port.
SocketInfoOf_UdpRemote(s, addr, si) ==
    LET processes == Processes(s, si.associated_pids)
        kind == si.protocol_socket_info[1]
        info == si.protocol_socket_info[2]
    IN IF kind = "Tcp"
       THEN [processes |-> processes, local_port |-> info.local_port,
             local_addr |-> info.local_addr, remote_port |-> Some(info.remote_port),
             remote_addr |-> Some(info.remote_addr), protocol |-> TCP,
             state |-> Some(info.state), family |-> addr]
       ELSE [processes |-> processes, local_port |-> info.local_port,
             local_addr |-> info.local_addr, remote_port |-> Some(0),
             remote_addr |-> None, protocol |-> UDP, state |-> None, family |-> addr]

\* The match on si.protocol_socket_info: the SocketInfo pushed for one good row.
SocketInfoOf(s, addr, si) ==
    LET processes == Processes(s, si.associated_pids)
        kind == si.protocol_socket_info[1]
        info == si.protocol_socket_info[2]
    IN IF kind = "Tcp"
       THEN [processes |-> processes,
             local_port |-> info.local_port,
             local_addr |-> info.local_addr,
             remote_port |-> Some(info.remote_port),
             remote_addr |-> Some(info.remote_addr),
             protocol |-> TCP,
             state |-> Some(info.state),
             family |-> addr]
       ELSE [processes |-> processes,
             local_port |-> info.local_port,
             local_addr |-> info.local_addr,
             remote_port |-> None,
             remote_addr |-> None,
             protocol |-> UDP,
             state |-> None,
             family |-> addr]

\* Mutant: a bad row throws away the records collected before it.
PushRow_Abort(acc, s, addr, info) ==
    IF info[1] = "Ok" THEN Append(acc, SocketInfoOf(s, addr, info[2])) ELSE <<>>

\* What the loop body does with one item of the iterator: Err(_) => continue.
PushRow(acc, s, addr, info) ==
    IF info[1] = "Ok" THEN Append(acc, SocketInfoOf(s, addr, info[2])) ELSE acc

RECURSIVE GetSocketsLoop(_, _, _, _, _)
GetSocketsLoop(acc, s, addr, table, i) ==
    IF i > Len(table) THEN acc
    ELSE GetSocketsLoop(PushRow(acc, s, addr, table[i]), s, addr, table, i + 1)

\* get_sockets(sys, addr) on a table the iterator could be opened for.
get_sockets(s, addr, table) == GetSocketsLoop(<<>>, s, addr, table, 1)

(***************************************************************************)
(* Display helpers                                                         *)
(***************************************************************************)
RECURSIVE Join(_)
\* cmd.join(" ")
Join(cmd) ==
    IF Len(cmd) = 0 THEN ""
    ELSE IF Len(cmd) = 1 THEN cmd[1]
    ELSE cmd[1] \o " " \o Join(Tail(cmd))

\* max_length.saturating_sub(3)
SaturatingSub3(n) == IF n >= 3 THEN n - 3 ELSE 0

\* format_command_line; a truncated command is <<bytes kept, full command, "...">>.
format_command_line(cmd, max_length) ==
    IF Len(cmd) = 0 THEN "unknown"
    ELSE LET full_cmd == Join(cmd) IN
         IF Len(full_cmd) <= max_length THEN full_cmd
         ELSE <<SaturatingSub3(max_length), full_cmd, "...">>

CommandWidth == 40

tcp_state_to_str(state) ==
    IF state = None THEN "UNKNOWN"
    ELSE CASE state[1] = "Listen" -> "LISTEN"
           [] state[1] = "SynSent" -> "SYN_SENT"
           [] state[1] = "SynReceived" -> "SYN_RECEIVED"
           [] state[1] = "Established" -> "ESTABLISHED"
           [] state[1] = "FinWait1" -> "FIN_WAIT_1"
           [] state[1] = "FinWait2" -> "FIN_WAIT_2"
           [] state[1] = "CloseWait" -> "CLOSE_WAIT"
           [] state[1] = "Closing" -> "CLOSING"
           [] state[1] = "LastAck" -> "LAST_ACK"
           [] state[1] = "TimeWait" -> "TIME_WAIT"
           [] state[1] = "Closed" -> "CLOSED"
           [] state[1] = "DeleteTcb" -> "DELETE_TCB"
           [] OTHER -> "UNKNOWN"

get_protocol_string(family) ==
    IF family = IPV4 THEN "TCP" ELSE IF family = IPV6 THEN "TCP6" ELSE "TCP"

format_remote_address(remote_addr, remote_port) ==
    IF remote_addr # None /\ remote_port # None
    THEN <<remote_addr[1], remote_port[1]>>
    ELSE "-"

\* users::get_user_by_uid over the host's account directory: only root has an entry.
get_user_by_uid(uid) == IF uid = 0 THEN Some("root") ELSE None

\* get_user_info: (uid_str, user)
get_user_info(uid) ==
    LET uid_str == IF uid = None THEN "unknown" ELSE ToString(uid[1])
        entry == IF uid = None THEN None ELSE get_user_by_uid(uid[1])
        user == IF entry = None THEN "unknown" ELSE entry[1]
    IN <<uid_str, user>>

\* Mutant: the last owning process is used instead of the first.
FirstProcess_Last(s) ==
    IF Len(s.processes) > 0
    THEN s.processes[Len(s.processes)]
    ELSE [pid |-> 0, uid |-> None, name |-> "unknown", cmd |-> <<>>, exe |-> "", cwd |-> ""]

\* s.processes.first(), with the fallback tuple of the else branch.
FirstProcess(s) ==
    IF Len(s.processes) > 0
    THEN s.processes[1]
    ELSE [pid |-> 0, uid |-> None, name |-> "unknown", cmd |-> <<>>, exe |-> "", cwd |-> ""]

(***************************************************************************)
(* main after the enumerations: merge, TCP filter, port filter, sort       *)
(***************************************************************************)
\* Mutant: the TCP filter keeps every socket.
TcpOnly_KeepAll(seq) == seq

\* .filter(|s| s.protocol == ProtocolFlags::TCP)
TcpOnly(seq) == SelectSeq(seq, LAMBDA s : s.protocol = TCP)

\* Mutant: the port filter keeps every port from filter_port up.
FilterPort_AtLeast(seq, filter_port) == SelectSeq(seq, LAMBDA s : s.local_port >= filter_port)

\* .filter(|s| s.local_port == filter_port)
FilterPort(seq, filter_port) == SelectSeq(seq, LAMBDA s : s.local_port = filter_port)

\* Mutant: x goes before the elements that compare equal (ties are reversed).
InsertByPort_BeforeEqual(acc, x) ==
    LET k == Cardinality({i \in 1..Len(acc) : acc[i].local_port < x.local_port})
    IN SubSeq(acc, 1, k) \o <<x>> \o SubSeq(acc, k + 1, Len(acc))

\* Where a stable sort puts x among the already sorted acc: behind every element
\* that does not compare greater (a.local_port.cmp(&b.local_port)).
InsertByPort(acc, x) ==
    LET k == Cardinality({i \in 1..Len(acc) : acc[i].local_port <= x.local_port})
    IN SubSeq(acc, 1, k) \o <<x>> \o SubSeq(acc, k + 1, Len(acc))

RECURSIVE SortLoop(_, _, _)
SortLoop(acc, seq, i) ==
    IF i > Len(seq) THEN acc ELSE SortLoop(InsertByPort(acc, seq[i]), seq, i + 1)

\* tcp_sockets.sort_by(|a, b| a.local_port.cmp(&b.local_port)): slice::sort_by is stable.
sort_by_local_port(seq) == SortLoop(<<>>, seq, 1)

(***************************************************************************)
(* Printing                                                                *)
(***************************************************************************)
\* The block printed for one matching socket in port mode.
PortBlock(s) ==
    LET proc_info == FirstProcess(s)
        pid == proc_info.pid
        proc_name == proc_info.name
        info == get_user_info(proc_info.uid)
        uid_str == info[1]
        user == info[2]
    IN [port |-> s.local_port,
        proto |-> get_protocol_string(s.family),
        local |-> <<s.local_addr, s.local_port>>,
        remote |-> format_remote_address(s.remote_addr, s.remote_port),
        state |-> tcp_state_to_str(s.state),
        process |-> IF pid = 0 /\ proc_name = "unknown"
                    THEN "unknown, likely a \"kernel\" process" ELSE proc_name,
        pid |-> pid,
        command |-> IF Len(proc_info.cmd) > 0 THEN Some(Join(proc_info.cmd)) ELSE None,
        executable |-> IF proc_info.exe # "" THEN Some(proc_info.exe) ELSE None,
        cwd |-> IF proc_info.cwd # "" THEN Some(proc_info.cwd) ELSE None,
        uid |-> uid_str,
        user |-> IF pid = 0 /\ user = "unknown"
                 THEN "unknown, likely \"kernel\"" ELSE user]

\* One line of the table; the detailed table has the COMMAND column.
TableRow(s, detailed) ==
    LET proc_info == FirstProcess(s)
        info == get_user_info(proc_info.uid)
    IN [port |-> s.local_port,
        pid |-> proc_info.pid,
        uid |-> info[1],
        user |-> info[2],
        status |-> tcp_state_to_str(s.state),
        protocol |-> get_protocol_string(s.family),
        process_name |-> proc_info.name,
        command |-> IF detailed THEN Some(format_command_line(proc_info.cmd, CommandWidth))
                    ELSE None,
        local |-> <<s.local_addr, s.local_port>>,
        remote |-> format_remote_address(s.remote_addr, s.remote_port)]

TableHeader(detailed) ==
    IF detailed
    THEN <<"PORT", "PID", "UID", "USER", "STATUS", "PROTOCOL", "PROCESS_NAME", "COMMAND",
           "LOCAL", "REMOTE">>
    ELSE <<"PORT", "PID", "UID", "USER", "STATUS", "PROTOCOL", "PROCESS_NAME",
           "LOCAL", "REMOTE">>

\* The header line followed by one line per socket.
TableLines(seq, detailed) ==
    <<TableHeader(detailed)>> \o [i \in 1..Len(seq) |-> TableRow(seq[i], detailed)]

PortBlocks(seq) == [i \in 1..Len(seq) |-> PortBlock(seq[i])]

(***************************************************************************)
(* The run                                                                 *)
(***************************************************************************)
\* Args::parse(): no port, or a port to look for; --detailed or not.
ArgsSet == [port : {None} \cup {Some(p) : p \in Ports}, detailed : BOOLEAN]

Init ==
    /\ pc = "new_all"
    /\ args \in ArgsSet
    /\ sys = [p \in Pids |-> None]
    /\ table4 = <<>>
    /\ table6 = <<>>
    /\ sockets = <<>>
    /\ sockets6 = <<>>
    /\ tcp_sockets = <<>>
    /\ matching = <<>>
    /\ out = <<>>
    /\ result = <<"Running">>

\* let mut sys = System::new_all();
NewAll ==
    /\ pc = "new_all"
    /\ sys' \in Snapshots
    /\ pc' = "refresh"
    /\ UNCHANGED <<args, table4, table6, sockets, sockets6, tcp_sockets, matching, out, result>>

\* sys.refresh_processes(ProcessesToUpdate::All, true): dead processes go, new ones come.
RefreshProcesses ==
    /\ pc = "refresh"
    /\ sys' \in Snapshots
    /\ pc' = "enum4"
    /\ UNCHANGED <<args, table4, table6, sockets, sockets6, tcp_sockets, matching, out, result>>

\* iterate_sockets_info(IPV4, ..) fails: `?` returns the error from main.
GetSockets4Fail ==
    /\ pc = "enum4"
    /\ result' = <<"Err", "Failed to get socket information">>
    /\ pc' = "done"
    /\ UNCHANGED <<args, sys, table4, table6, sockets, sockets6, tcp_sockets, matching, out>>

\* Mutant: the table header is printed as soon as the IPv4 sockets are there.
GetSockets4_PrintsHeader ==
    /\ pc = "enum4"
    /\ \E table \in Tables(IPV4, MaxSockets) :
          /\ table4' = table
          /\ sockets' = get_sockets(sys, IPV4, table)
    /\ out' = <<TableHeader(args.detailed)>>
    /\ pc' = "enum6"
    /\ UNCHANGED <<args, sys, table6, sockets6, tcp_sockets, matching, result>>

\* let mut sockets = get_sockets(&sys, AddressFamilyFlags::IPV4)?;
GetSockets4 ==
    /\ pc = "enum4"
    /\ \E table \in Tables(IPV4, MaxSockets) :
          /\ table4' = table
          /\ sockets' = get_sockets(sys, IPV4, table)
    /\ pc' = "enum6"
    /\ UNCHANGED <<args, sys, table6, sockets6, tcp_sockets, matching, out, result>>

\* iterate_sockets_info(IPV6, ..) fails: the IPv4 result is dropped with main's frame.
GetSockets6Fail ==
    /\ pc = "enum6"
    /\ result' = <<"Err", "Failed to get socket information">>
    /\ pc' = "done"
    /\ UNCHANGED <<args, sys, table4, table6, sockets, sockets6, tcp_sockets, matching, out>>

\* Mutant: the process table is refreshed before the IPv6 pass.
GetSockets6_Refreshes ==
    /\ pc = "enum6"
    /\ sys' \in Snapshots
    /\ \E table \in Tables(IPV6, MaxSockets - Len(table4)) :
          /\ table6' = table
          /\ sockets6' = get_sockets(sys', IPV6, table)
    /\ pc' = "output"
    /\ UNCHANGED <<args, table4, sockets, tcp_sockets, matching, out, result>>

\* let mut sockets6 = get_sockets(&sys, AddressFamilyFlags::IPV6)?;
GetSockets6 ==
    /\ pc = "enum6"
    /\ \E table \in Tables(IPV6, MaxSockets - Len(table4)) :
          /\ table6' = table
          /\ sockets6' = get_sockets(sys, IPV6, table)
    /\ pc' = "output"
    /\ UNCHANGED <<args, sys, table4, sockets, tcp_sockets, matching, out, result>>

\* sockets.append(&mut sockets6), the TCP filter, and a port that nothing matches.
PortNotInUse ==
    /\ pc = "output"
    /\ args.port # None
    /\ LET merged == sockets \o sockets6
           tcp == TcpOnly(merged)
           m == FilterPort(tcp, args.port[1])
       IN /\ m = <<>>
          /\ sockets' = merged
          /\ sockets6' = <<>>
          /\ tcp_sockets' = tcp
          /\ matching' = m
          /\ result' = <<"Err", "Port is not in use.", args.port[1]>>
    /\ pc' = "done"
    /\ UNCHANGED <<args, sys, table4, table6, out>>

\* sockets.append(&mut sockets6), the TCP filter, and the block of every matching socket.
PrintPort ==
    /\ pc = "output"
    /\ args.port # None
    /\ LET merged == sockets \o sockets6
           tcp == TcpOnly(merged)
           m == FilterPort(tcp, args.port[1])
       IN /\ m # <<>>
          /\ sockets' = merged
          /\ sockets6' = <<>>
          /\ tcp_sockets' = tcp
          /\ matching' = m
          /\ out' = out \o PortBlocks(m)
    /\ result' = <<"Ok">>
    /\ pc' = "done"
    /\ UNCHANGED <<args, sys, table4, table6>>

\* sockets.append(&mut sockets6), the TCP filter, the sort and the table.
PrintTable ==
    /\ pc = "output"
    /\ args.port = None
    /\ LET merged == sockets \o sockets6
           sorted == sort_by_local_port(TcpOnly(merged))
       IN /\ sockets' = merged
          /\ sockets6' = <<>>
          /\ tcp_sockets' = sorted
          /\ out' = out \o TableLines(sorted, args.detailed)
    /\ result' = <<"Ok">>
    /\ pc' = "done"
    /\ UNCHANGED <<args, sys, table4, table6, matching>>

Next ==
    \/ NewAll
    \/ RefreshProcesses
    \/ GetSockets4Fail
    \/ GetSockets4
    \/ GetSockets6Fail
    \/ GetSockets6
    \/ PortNotInUse
    \/ PrintPort
    \/ PrintTable

Spec == Init /\ [][Next]_vars

(***************************************************************************)
(* Vocabulary of the properties                                            *)
(***************************************************************************)
EnumerationError == <<"Err", "Failed to get socket information">>

\* main returned Err: the runtime reports it and the process exits with a failure status.
ProcessFailure == result[1] = "Err"

\* The rows of a table the iterator yielded as Ok, in table order.
GoodRows(table) == SelectSeq(table, LAMBDA r : r[1] = "Ok")

\* Every socket the kernel yielded in this run, IPv4 rows first.
AllGoodRows == GoodRows(table4) \o GoodRows(table6)

\* Every record the enumerations have built so far, IPv4 records first.
AllSockets == sockets \o sockets6

RowKind(r) == r[2].protocol_socket_info[1]

RowPort(r) == r[2].protocol_socket_info[2].local_port

RowPids(r) == r[2].associated_pids

TcpRowCount ==
    LET good == AllGoodRows
    IN Cardinality({k \in 1..Len(good) : RowKind(good[k]) = "Tcp"})

UdpRowCount ==
    LET good == AllGoodRows
    IN Cardinality({k \in 1..Len(good) : RowKind(good[k]) = "Udp"})

TcpRowCountOn(port) ==
    LET good == AllGoodRows
    IN Cardinality({k \in 1..Len(good) : RowKind(good[k]) = "Tcp" /\ RowPort(good[k]) = port})

\* The records the printing loop iterates over: the output stage's input.
Handed == IF args.port = None THEN tcp_sockets ELSE matching

Finished == pc = "done" /\ result # EnumerationError

\* What the run hands over when no port is asked for, from the same enumerations.
UnfilteredResult == sort_by_local_port(TcpOnly(sockets))

OnPort(seq, port) == SelectSeq(seq, LAMBDA s : s.local_port = port)

PidsOf(processes) == [i \in 1..Len(processes) |-> processes[i].pid]

(***************************************************************************)
(* C1                                                                      *)
(***************************************************************************)
\* C1 as stated: in a run that listed everything (no port filter, no enumeration
\* error) the output stage gets as many records as the kernel yielded sockets,
\* TCP and UDP together.
C1_AllSocketsReachOutput ==
    (Finished /\ args.port = None) => Len(Handed) = Len(AllGoodRows)

\* C1 amended: the enumerations keep one record per yielded socket, TCP or UDP,
\* but the output stage gets only the TCP ones (of the requested port, when a
\* port is given): the table has one line per yielded TCP socket, and UDP
\* sockets are never handed over.
C1_TcpSocketsReachOutput ==
    /\ Len(AllSockets) = Len(AllGoodRows)
    /\ Finished =>
         LET tcp == TcpRowCount
         IN /\ Len(tcp_sockets) = tcp
            /\ \A k \in 1..Len(Handed) : Handed[k].protocol = TCP
            /\ args.port = None => (Len(Handed) = tcp /\ Len(out) = 1 + tcp)
            /\ args.port # None => Len(Handed) = TcpRowCountOn(args.port[1])

\* A finished listing of a host that had a UDP socket and a TCP socket.
C1_Witness ==
    /\ Finished
    /\ args.port = None
    /\ UdpRowCount = 1
    /\ TcpRowCount = 1
    /\ Len(out) = 2

(***************************************************************************)
(* C2                                                                      *)
(***************************************************************************)
\* C2 as stated: with a port filter the records are the records of the unfiltered
\* result on that port; when there is none, the outcome has no record, is not a
\* successful listing and is not a process failure.
C2_FilterMissIsNoFailure ==
    (Finished /\ args.port # None) =>
        /\ matching = OnPort(UnfilteredResult, args.port[1])
        /\ Len(out) = Len(matching)
        /\ matching = <<>> => (result # <<"Ok">> /\ ~ProcessFailure)

\* C2 amended: with a port filter the records are the records of the unfiltered
\* result on that port, all of them and in the same order, one printed block
\* each; when there is none, nothing is printed and main returns the error
\* "Port <p> is not in use.", which differs from a successful listing and from
\* the enumeration error, but is a process failure.
C2_FilterMissIsAnError ==
    (Finished /\ args.port # None) =>
        /\ matching = OnPort(UnfilteredResult, args.port[1])
        /\ Len(out) = Len(matching)
        /\ \A k \in 1..Len(out) : out[k].port = args.port[1]
        /\ matching # <<>> => result = <<"Ok">>
        /\ matching = <<>> =>
             /\ result = <<"Err", "Port is not in use.", args.port[1]>>
             /\ ProcessFailure
             /\ out = <<>>

\* A port that an IPv4 and an IPv6 TCP socket share: both are printed.
C2_Witness ==
    /\ pc = "done"
    /\ args.port = Some(80)
    /\ Len(matching) = 2
    /\ matching[1].family = IPV4
    /\ matching[2].family = IPV6
    /\ Len(out) = 2

C4_NoOutputBeforeBothEnumerations ==
    /\ out # <<>> => (pc = "done" /\ result = <<"Ok">>)
    /\ pc \in {"new_all", "refresh", "enum4", "enum6", "output"} =>
          (out = <<>> /\ result = <<"Running">>)
    /\ result = EnumerationError => (pc = "done" /\ out = <<>> /\ ProcessFailure)

\* The IPv6 enumeration failed after the IPv4 one had found a TCP socket.
C4_Witness ==
    /\ result = EnumerationError
    /\ Len(sockets) > 0
    /\ sockets[1].protocol = TCP
    /\ out = <<>>

(***************************************************************************)
(* C5                                                                      *)
(***************************************************************************)
\* C5: get_sockets returns one record per good row, in the rows' order, and
\* none for a bad row; a bad row does not end the run.
C5_BadRowsSkipped ==
    /\ LET good == AllGoodRows
           good4 == Len(GoodRows(table4))
           all == AllSockets
       IN /\ Len(all) = Len(good)
          /\ \A k \in 1..Len(good) :
                /\ k <= Len(all)
                /\ all[k].local_port = RowPort(good[k])
                /\ all[k].protocol = (IF RowKind(good[k]) = "Tcp" THEN TCP ELSE UDP)
                /\ all[k].family = (IF k <= good4 THEN IPV4 ELSE IPV6)
                /\ Len(all[k].processes) = Len(RowPids(good[k]))
    /\ (Len(table4) + Len(table6) > 0 /\ pc # "done") => result = <<"Running">>

\* The IPv4 table had a bad row followed by a good one: one record.
C5_Witness ==
    /\ pc = "enum6"
    /\ Len(table4) = 2
    /\ table4[1][1] = "Err"
    /\ table4[2][1] = "Ok"
    /\ Len(sockets) = 1

(***************************************************************************)
(* C6                                                                      *)
(***************************************************************************)
\* C6: the process list of a record has one entry per associated pid of its
\* socket, in the order of the pids; no pid gives an empty list, and the record
\* is there all the same.
C6_AllOwnersRecorded ==
    LET good == AllGoodRows
        all == AllSockets
    IN \A k \in 1..Len(good) :
          /\ k <= Len(all)
          /\ PidsOf(all[k].processes) = RowPids(good[k])

\* A socket with two owners next to a socket with none.
C6_Witness ==
    /\ Len(AllSockets) = 2
    /\ PidsOf(AllSockets[1].processes) = <<1, 2>>
    /\ AllSockets[2].processes = <<>>

(***************************************************************************)
(* C7                                                                      *)
(***************************************************************************)
\* The entry of every pid the snapshot does not know is [pid, name, no uid, no
\* command line, no paths], at the pid's place in the process list of its socket.
ExitedOwnersAreNamed(name) ==
    LET good == AllGoodRows
        all == AllSockets
    IN \A k \in 1..Len(good) :
          \A i \in 1..Len(RowPids(good[k])) :
             sys[RowPids(good[k])[i]] = None =>
                /\ k <= Len(all)
                /\ i <= Len(all[k].processes)
                /\ all[k].processes[i] =
                      [pid |-> RowPids(good[k])[i], uid |-> None, name |-> name,
                       cmd |-> <<>>, exe |-> "", cwd |-> ""]

\* C7 as stated: a pid that the snapshot does not know gets an entry with the
\* pid and nothing else: no name, no uid, no command line, no paths.
C7_ExitedOwnerHasNoName == ExitedOwnersAreNamed("")

\* C7 amended: a pid that the snapshot does not know gets an entry with the
\* pid, the name "unknown" and nothing else: no uid, no command line, no paths;
\* the entry is never dropped and the run does not fail on it.
C7_ExitedOwnerIsNamedUnknown == ExitedOwnersAreNamed("unknown")

\* A socket owned by pid 1, which has exited, and pid 2, which the snapshot knows.
C7_Witness ==
    /\ pc = "enum6"
    /\ Len(sockets) > 0
    /\ PidsOf(sockets[1].processes) = <<1, 2>>
    /\ sys[1] = None
    /\ sys[2] # None
    /\ sockets[1].processes[1].name = "unknown"
    /\ sockets[1].processes[2].name = "sshd"

(***************************************************************************)
(* C8                                                                      *)
(***************************************************************************)
\* C8: remote address and remote port are present together or absent together;
\* a UDP record has neither and no state; a TCP record has a state.
C8_RemoteEndpointPaired ==
    LET all == AllSockets
    IN \A k \in 1..Len(all) :
          /\ (all[k].remote_addr = None) <=> (all[k].remote_port = None)
          /\ all[k].protocol = UDP =>
                /\ all[k].remote_addr = None
                /\ all[k].remote_port = None
                /\ all[k].state = None
          /\ all[k].protocol = TCP => all[k].state # None

\* A UDP record next to a TCP record.
C8_Witness ==
    /\ Len(AllSockets) = 2
    /\ AllSockets[1].protocol = UDP
    /\ AllSockets[2].protocol = TCP
    /\ AllSockets[2].remote_port = Some(0)

(***************************************************************************)
(* C9                                                                      *)
(***************************************************************************)
\* The user name the claim gives a record: that of the account of the first
\* owner's uid, "unknown" without a first owner, a uid or an account.
ExpectedUser(s) ==
    IF Len(s.processes) = 0 THEN "unknown"
    ELSE IF s.processes[1].uid = None THEN "unknown"
    ELSE IF s.processes[1].uid = Some(0) THEN "root"
    ELSE "unknown"

\* The user shown for record s: port mode words the sentinel of pid 0 differently.
ShownUser(s) ==
    IF args.port # None /\ ExpectedUser(s) = "unknown" /\ Len(s.processes) = 0
    THEN "unknown, likely \"kernel\""
    ELSE ExpectedUser(s)

\* The printed line or block of the k-th handed-over record.
LineOf(k) == IF args.port = None THEN out[k + 1] ELSE out[k]

\* C9: the user of every printed record is the one of its first owner's uid, or
\* the "unknown" sentinel; later owners do not matter and the run succeeds.
C9_UserOfFirstOwner ==
    (pc = "done" /\ result = <<"Ok">>) =>
        \A k \in 1..Len(Handed) : LineOf(k).user = ShownUser(Handed[k])

\* A listed socket whose first owner has exited and whose second owner is root's.
C9_Witness ==
    /\ pc = "done"
    /\ result = <<"Ok">>
    /\ args.port = None
    /\ Len(tcp_sockets) > 0
    /\ Len(tcp_sockets[1].processes) = 2
    /\ tcp_sockets[1].processes[1].uid = None
    /\ tcp_sockets[1].processes[2].uid = Some(0)
    /\ out[2].user = "unknown"

(***************************************************************************)
(* C10                                                                     *)
(***************************************************************************)
\* Every process entry of every record is what the snapshot held in state s.
ResolvedAgainst(s) ==
    LET all == AllSockets
    IN \A k \in 1..Len(all) :
          \A i \in 1..Len(all[k].processes) :
             all[k].processes[i] = ProcessInfoOf(s, all[k].processes[i].pid)

\* C10: the snapshot is complete before the first enumeration starts (no socket
\* is resolved in new_all or refresh), no step from there on changes it, and
\* the entries of both passes are the ones of that one snapshot.
C10_SnapshotFrozen ==
    [][ /\ pc \notin {"new_all", "refresh"} => sys' = sys
        /\ pc \in {"new_all", "refresh"} => (table4 = <<>> /\ AllSockets = <<>>)
        /\ ResolvedAgainst(sys)' ]_vars

\* Both passes resolved a socket of pid 1 against the snapshot.
C10_Witness ==
    /\ pc = "output"
    /\ Len(sockets) = 1
    /\ Len(sockets6) = 1
    /\ PidsOf(sockets[1].processes) = <<1>>
    /\ PidsOf(sockets6[1].processes) = <<1>>
    /\ sys[1] # None
    /\ sockets[1].processes[1] = sockets6[1].processes[1]

====
